---- MODULE Spec2Model ----
(***************************************************************************)
(* Solar-System-Infinite-Dance: the planet/moon animation of               *)
(* src/unnamed/part_000 (the same program, with other constants, is the    *)
(* second script of src/main.js).                                          *)
(*                                                                         *)
(* Numbers.  JavaScript doubles are modelled in fixed point:               *)
(*   angles and phases   1 unit = 1e-6 rad                                 *)
(*   times               1 unit = 1 ms (performance.now())                 *)
(*   positions           1 unit = 1e-6 scene units                         *)
(*   orbitalSpeed, speed, irrational   1 unit = 1e-2                       *)
(*   speedScale          1 unit = 1e-4                                     *)
(*   Math.sin, Math.cos  1 unit = 1e-2, tabulated every 0.1 rad            *)
(* JavaScript arrays keep their 0-based indices where the code computes    *)
(* with them (trail slots); forEach indices si, mi are the 1-based         *)
(* sequence index minus one.                                               *)
(***************************************************************************)
EXTENDS Integers, Sequences, FiniteSets, TLC

\* ------------------------------------------------------------------ bounds
\* number of invocations of animate() explored
MaxTicks == 3
\* elapsed time between two ticks: 0..MaxFrames quanta of FrameQuantum ms
MaxFrames == 1
FrameQuantum == 250
\* Math.random() * Math.PI * 2 draws 0..MaxRnd quanta of AngleQuantum
MaxRnd == 1
AngleQuantum == 2000000
\* N-body core: masses 1..MaxMass, initial speeds -MaxSpeed..MaxSpeed, at most
\* MaxSteps integration steps, elapsed times 0..MaxElapsed
MaxMass == 2
MaxSpeed == 1
MaxSteps == 3
MaxElapsed == 2
\* performance.now() of the second run when the first run's is 0
TwinClockOffset == 1000
\* window.innerWidth ranges over 1..MaxWin (window.innerHeight is kept at 1)
MaxWin == 2
\* slots of a trail buffer (4800 in part_000, 2000 and 2600 in main.js)
trailLength == 2

\* -------------------------------------------------------- program constants
speedScale == 7

\* N-body core: the scaled gravitational constant, the softening constant,
\* the base timestep, the speed multiplier and the fixed-point scale of the
\* inverse-cube factor
scaledG == 1
softening == 1
dtBase == 2
speedMultiplier == 2
factorScale == 8

VARIABLES
    planetSystems,  \* const planetSystems: the configuration
    systems,        \* const systems = []: built bodies (angle, mesh, moons, trails)
    globalTime,     \* let globalTime
    lastTime,       \* let lastTime
    now,            \* the host clock, performance.now()
    dt,             \* animate's const dt, passed to update(dt)
    pc,             \* where the script / the running handler is
    cur,            \* update's position in systems.forEach / sys.moons.forEach
    p,              \* update's px, py, pz of the system being visited
    pending,        \* callbacks queued by requestAnimationFrame
    listener,       \* the resize listener is registered
    viewport,       \* window size, camera.aspect, renderer size and clear alpha
    frame,          \* what the last renderer.render(scene, camera) read
    ticks,          \* history: invocations of animate()
    updates,        \* history: invocations of update(dt)
    advanced,       \* history: body -> the tick that last advanced it
    written,        \* history: moon -> slot -> the tick that last wrote it
    twin,           \* a second run of the script, started from the same bodies
    nbody           \* the gravitational N-body core (bodies, accelerations, step)

vars == <<nbody, twin, planetSystems, systems, globalTime, lastTime, now, dt, pc, cur, p,
          pending, listener, viewport, frame, ticks, updates, advanced, written>>

\* ------------------------------------------------------------- arithmetic
RECURSIVE Ulp(_)
\* spacing of float32 values around a magnitude n (24-bit significand)
Ulp(n) == IF n < 16777216 THEN 1 ELSE 2 * Ulp(n \div 2)

Abs(x) == IF x < 0 THEN -x ELSE x

\* storing a double into a Float32Array: round to nearest float32, ties to even
Fround(x) ==
    LET n == Abs(x)
        u == Ulp(n)
        q == n \div u
        r == n % u
        m == IF 2 * r > u \/ (2 * r = u /\ q % 2 = 1) THEN (q + 1) * u ELSE q * u
    IN IF x < 0 THEN -m ELSE m

SinTable ==
    << 0, 10, 20, 30, 39, 48, 56, 64, 72, 78, 84, 89, 93, 96, 99, 100, 100, 99,
       97, 95, 91, 86, 81, 75, 68, 60, 52, 43, 33, 24, 14, 4, -6, -16, -26, -35,
       -44, -53, -61, -69, -76, -82, -87, -92, -95, -98, -99, -100, -100, -98,
       -96, -93, -88, -83, -77, -71, -63, -55, -46, -37, -28, -18, -8 >>

\* Math.sin
Sin(a) == SinTable[((a \div 100000) % 63) + 1]

\* Math.cos
Cos(a) == Sin(a + 1570796)

\* Math.sqrt of a number given in units of 1e-4, result in units of 1e-2
Sqrt(n) == CHOOSE r \in 0..1000 : r * r <= n /\ (r + 1) * (r + 1) > n

\* ---------------------------------------------------------- configuration
\* Two of the eight entries of planetSystems: one without moons, one with two.
ShippedSystems ==
    << [name |-> "Mercury", radius |-> 70, orbitalSpeed |-> 415,
        tiltPhase |-> 200000, moons |-> << >>],
       [name |-> "Mars", radius |-> 150, orbitalSpeed |-> 53,
        tiltPhase |-> 1400000,
        moons |-> << [name |-> "Phobos", r |-> 18, speed |-> 1800],
                     [name |-> "Deimos", r |-> 26, speed |-> 1100] >>] >>

\* the values Math.random() * Math.PI * 2 is drawn from
RandomAngles == { k * AngleQuantum : k \in 0..MaxRnd }

\* the values now - lastTime takes
Elapsed == { k * FrameQuantum : k \in 0..MaxFrames }

WindowSizes == (1..MaxWin) \X {1}

\* the bodies of a configuration: <<si, 0>> a planet, <<si, mi>> a moon (1-based)
Bodies(config) ==
    { <<si, mi>> : si \in 1..Len(config), mi \in 0..2 } \cap
    { b \in (1..Len(config)) \X (0..2) : b[2] <= Len(config[b[1]].moons) }

Moons(config) == { b \in Bodies(config) : b[2] > 0 }

Origin == [x |-> 0, y |-> 0, z |-> 0]

\* ------------------------------------------------------------------ build
\* new Float32Array(trailLength * 3)
NewTrail == [i \in 0..(trailLength * 3 - 1) |-> 0]

\* system.moons.push({...}); mi is forEach's 0-based index
BuildMoon(mi, rnd) ==
    [index |-> 0,
     angle |-> rnd,
     irrational |-> Sqrt(31000 + mi * 5100),
     mesh |-> Origin,
     positions |-> NewTrail]

\* const system = {...}; s is the loop's 0-based index
BuildSystem(pDef, s, rnd) ==
    [angle |-> rnd[<<s + 1, 0>>],
     irrational |-> Sqrt(20000 + s * 3700),
     mesh |-> Origin,
     moons |-> [mi \in 1..Len(pDef.moons) |-> BuildMoon(mi - 1, rnd[<<s + 1, mi>>])]]

\* for (let s = 0; s < planetSystems.length; s++) { ... systems.push(system) }
Build(config, rnd) ==
    [s \in 1..Len(config) |-> BuildSystem(config[s], s - 1, rnd)]

\* ----------------------------------------------------------------- update
AdvanceAnglePerFrame(angle, w, d) == angle + w * FrameQuantum

\* sys.angle += wPlanet * dt  /  moon.angle += wMoon * dt
AdvanceAngle(angle, w, d) == angle + w * d

NextIndexSkipsZero(index) == IF index + 1 >= trailLength THEN 1 ELSE index + 1

\* moon.index = (moon.index + 1) % trailLength
NextIndex(index) == (index + 1) % trailLength

\* px, py, pz of a planet at sys.angle and globalTime
PlanetPosition(pd, si, angle, gt) ==
    LET ellipseFactor == 1000 + Sin(gt * 20 + si * 1000000)
    IN [x |-> Cos(angle) * pd.radius * ellipseFactor * 10,
        y |-> 14 * Sin((angle * 4) \div 10 + pd.tiltPhase) * 10000,
        z |-> Sin(angle) * pd.radius * 10000]

\* mxLocal, myLocal, mzLocal of a moon at moon.angle
MoonLocal(md, si, mi, angle) ==
    LET localTilt == 500000 + 450000 * mi
        lobes     == 5 + mi * 2
        radialMod == 10000 + 16 * Sin(lobes * angle + si * 700000)
    IN [x |-> Cos(angle) * md.r * radialMod,
        y |-> Sin((angle * 7) \div 10 + localTilt) * (md.r * 22) * 100,
        z |-> Sin(angle) * md.r * radialMod]

\* the planet part of systems.forEach's body: angle, then mesh.position.set
UpdatePlanetOf(sys, pd, si, d, gt) ==
    LET wPlanet == (pd.orbitalSpeed * speedScale * sys.irrational) \div 100
        angle   == AdvanceAngle(sys.angle, wPlanet, d)
    IN [sys EXCEPT !.angle = angle,
                   !.mesh = PlanetPosition(pd, si, angle, gt)]

\* p + local offset: mx = px + mxLocal, my = py + myLocal, mz = pz + mzLocal
Compose(pp, loc) == [x |-> pp.x + loc.x, y |-> pp.y + loc.y, z |-> pp.z + loc.z]

\* the three writes moon.positions[i3 .. i3 + 2] = mx, my, mz
WriteTrail(positions, index, m) ==
    LET i3 == index * 3
    IN [positions EXCEPT ![i3] = Fround(m.x),
                         ![i3 + 1] = Fround(m.y),
                         ![i3 + 2] = Fround(m.z)]

\* the moon body writing the slot at the old index and advancing it afterwards
UpdateMoonOfWritesThenAdvances(moon, md, si, mi, pp, d) ==
    LET wMoon == (md.speed * speedScale * moon.irrational) \div 100
        angle == AdvanceAngle(moon.angle, wMoon, d)
        m     == Compose(pp, MoonLocal(md, si, mi, angle))
        index == NextIndex(moon.index)
    IN [moon EXCEPT !.angle = angle,
                    !.mesh = m,
                    !.index = index,
                    !.positions = WriteTrail(moon.positions, moon.index, m)]

\* sys.moons.forEach's body
UpdateMoonOf(moon, md, si, mi, pp, d) ==
    LET wMoon == (md.speed * speedScale * moon.irrational) \div 100
        angle == AdvanceAngle(moon.angle, wMoon, d)
        m     == Compose(pp, MoonLocal(md, si, mi, angle))
        index == NextIndex(moon.index)
    IN [moon EXCEPT !.angle = angle,
                    !.mesh = m,
                    !.index = index,
                    !.positions = WriteTrail(moon.positions, index, m)]

\* update(dt) as a function of the body store [globalTime, systems]
UpdateStore(config, st, d) ==
    LET gt == st.globalTime + d
    IN [globalTime |-> gt,
        systems |->
          [si \in 1..Len(st.systems) |->
             LET sys == UpdatePlanetOf(st.systems[si], config[si], si - 1, d, gt)
             IN [sys EXCEPT !.moons =
                   [mi \in 1..Len(sys.moons) |->
                      UpdateMoonOf(sys.moons[mi], config[si].moons[mi],
                                   si - 1, mi - 1, sys.mesh, d)]]]]

\* where forEach goes after the planet of system si / after its moon mi
AfterBody(si, mi) ==
    IF mi < Len(systems[si].moons) THEN [si |-> si, mi |-> mi + 1]
    ELSE [si |-> si + 1, mi |-> 0]

\* ------------------------------------------------------------ N-body core
\* The N-body core: Body Store, Force Evaluator, Leapfrog Integrator and Frame
\* Stepper.  Vectors are pairs <<x, y>> of integers; bodies start on the
\* reference axis, moving perpendicular to it.
VAdd(u, v) == <<u[1] + v[1], u[2] + v[2]>>

VSub(u, v) == <<u[1] - v[1], u[2] - v[2]>>

VScale(k, v) == <<k * v[1], k * v[2]>>

Dot(u, v) == u[1] * v[1] + u[2] * v[2]

Zero2 == <<0, 0>>

\* integer square root
ISqrt(n) == CHOOSE r \in 0..2000 : r * r <= n /\ (r + 1) * (r + 1) > n

\* 1 / (d.d + softening)^1.5, in units of 1 / factorScale
InvCube(d) ==
    LET r == ISqrt(Dot(d, d) + softening)
    IN IF r = 0 THEN factorScale ELSE factorScale \div (r * r * r)

ForceOnFirstWrongMass(bi, bj) ==
    VScale(scaledG * InvCube(VSub(bj.pos, bi.pos)) * bi.mass, VSub(bj.pos, bi.pos))

\* the pair (i, j)'s contribution to accel[i]: scaledG * factor * d * mass[j]
ForceOnFirst(bi, bj) ==
    VScale(scaledG * InvCube(VSub(bj.pos, bi.pos)) * bj.mass, VSub(bj.pos, bi.pos))

\* the pair (i, j)'s contribution to accel[j]: - scaledG * factor * d * mass[i]
ForceOnSecond(bi, bj) ==
    VScale(-(scaledG * InvCube(VSub(bj.pos, bi.pos)) * bi.mass), VSub(bj.pos, bi.pos))

RECURSIVE SumOver(_, _)
\* the sum of f[k] over the finite set S of indices
SumOver(f, S) ==
    IF S = {} THEN Zero2
    ELSE LET k == CHOOSE x \in S : TRUE IN VAdd(f[k], SumOver(f, S \ {k}))

\* Force Evaluator: every unordered pair (i, j), i < j, is visited once and
\* its contribution accumulated into accel[i] and accel[j]
Accelerations(bodies) ==
    [k \in 1..Len(bodies) |->
       VAdd(SumOver([j \in 1..Len(bodies) |-> ForceOnFirst(bodies[k], bodies[j])],
                    { j \in 1..Len(bodies) : k < j }),
            SumOver([i \in 1..Len(bodies) |-> ForceOnSecond(bodies[i], bodies[k])],
                    { i \in 1..Len(bodies) : i < k }))]

\* half-kick: velocity += acceleration * dt / 2
HalfKick(bodies, acc, h) ==
    [k \in 1..Len(bodies) |->
       [bodies[k] EXCEPT !.vel = VAdd(bodies[k].vel, VScale(h \div 2, acc[k]))]]

\* drift: position += velocity * dt
Drift(bodies, h) ==
    [k \in 1..Len(bodies) |->
       [bodies[k] EXCEPT !.pos = VAdd(bodies[k].pos, VScale(h, bodies[k].vel))]]

\* total momentum: the sum over all bodies of mass * velocity
Momentum(bodies) ==
    SumOver([k \in 1..Len(bodies) |-> VScale(bodies[k].mass, bodies[k].vel)],
            1..Len(bodies))

\* Frame Stepper: the number of sub-steps for an elapsed time, never below 1
SubStepCount(elapsed) ==
    LET n == (elapsed * speedMultiplier) \div dtBase IN IF n < 1 THEN 1 ELSE n

StageForceBeforeDrift(stage) ==
    CASE stage = "kick1" -> "force"
      [] stage = "force" -> "drift"
      [] stage = "drift" -> "kick2"
      [] OTHER -> "end"

\* Leapfrog Integrator: half-kick, drift, force evaluation, half-kick
NextStage(stage) ==
    CASE stage = "kick1" -> "drift"
      [] stage = "drift" -> "force"
      [] stage = "force" -> "kick2"
      [] OTHER -> "end"

\* Orbital-Elements Initializer: at distance a on the reference axis, moving
\* perpendicular to it with speed v
InitialBody(m, a, v) == [mass |-> m, pos |-> <<a, 0>>, vel |-> <<0, v>>]

\* the core before anything is configured
NBodyOff ==
    [bodies |-> << >>, acc |-> << >>, stage |-> "off", remaining |-> 0,
     steps |-> 0, evals |-> 0, p0 |-> Zero2]

\* ------------------------------------------------------------------- init
InitWith(config) ==
    /\ planetSystems = config
    /\ \E rnd \in [Bodies(config) -> RandomAngles] : systems = Build(config, rnd)
    /\ globalTime = 0
    /\ now = 0
    /\ lastTime = 0
    /\ dt = 0
    /\ pc = "script"
    /\ cur = [si |-> 1, mi |-> 0]
    /\ p = Origin
    /\ pending = 0
    /\ listener = FALSE
    /\ viewport = [window |-> <<1, 1>>, aspect |-> <<1, 1>>, size |-> <<1, 1>>,
                   clearAlpha |-> 1000]
    /\ frame = [tick |-> 0, systems |-> << >>, advanced |-> << >>]
    /\ ticks = 0
    /\ updates = 0
    /\ advanced = [b \in Bodies(config) |-> 0]
    /\ written = [b \in Moons(config) |-> [s \in 0..(trailLength - 1) |-> 0]]
    /\ twin = [now |-> TwinClockOffset, lastTime |-> TwinClockOffset,
               globalTime |-> 0, systems |-> systems, window |-> <<1, 1>>]

Init == InitWith(ShippedSystems) /\ nbody = NBodyOff

\* ---------------------------------------------------------------- actions
AnimateDtAbsolute(t, last) == t

\* const dt = now - lastTime
AnimateDt(t, last) == t - last

\* animate(), start to end, on the second run, after d ms
TwinAnimate(tw, d) ==
    LET t  == tw.now + d
        st == UpdateStore(planetSystems,
                          [globalTime |-> tw.globalTime, systems |-> tw.systems],
                          AnimateDt(t, tw.lastTime))
    IN [tw EXCEPT !.now = t, !.lastTime = t,
                  !.globalTime = st.globalTime, !.systems = st.systems]

AnimateBodySkipsEmptyFrame(d, queued) ==
    /\ pending' = queued + 1
    /\ now' = now + d
    /\ dt' = AnimateDt(now', lastTime)
    /\ lastTime' = now'
    /\ viewport' = [viewport EXCEPT !.clearAlpha = 28]
    /\ globalTime' = globalTime + dt'
    /\ updates' = IF dt' = 0 THEN updates ELSE updates + 1
    /\ ticks' = ticks + 1
    /\ cur' = [si |-> 1, mi |-> 0]
    /\ pc' = IF Len(systems) = 0 \/ dt' = 0 THEN "render" ELSE "update"
    /\ twin' = TwinAnimate(twin, d)
    /\ UNCHANGED <<nbody, planetSystems, systems, p, listener, frame, advanced, written>>

\* animate() without its requestAnimationFrame(animate) call
AnimateBodyNoReschedule(d, queued) ==
    /\ pending' = queued
    /\ now' = now + d
    /\ dt' = AnimateDt(now', lastTime)
    /\ lastTime' = now'
    /\ viewport' = [viewport EXCEPT !.clearAlpha = 28]
    /\ globalTime' = globalTime + dt'
    /\ updates' = updates + 1
    /\ ticks' = ticks + 1
    /\ cur' = [si |-> 1, mi |-> 0]
    /\ pc' = IF Len(systems) = 0 THEN "render" ELSE "update"
    /\ twin' = TwinAnimate(twin, d)
    /\ UNCHANGED <<nbody, planetSystems, systems, p, listener, frame, advanced, written>>

\* animate() up to and including update's globalTime += dt
AnimateBody(d, queued) ==
    /\ pending' = queued + 1
    /\ now' = now + d
    /\ dt' = AnimateDt(now', lastTime)
    /\ lastTime' = now'
    /\ viewport' = [viewport EXCEPT !.clearAlpha = 28]
    /\ globalTime' = globalTime + dt'
    /\ updates' = updates + 1
    /\ ticks' = ticks + 1
    /\ cur' = [si |-> 1, mi |-> 0]
    /\ pc' = IF Len(systems) = 0 THEN "render" ELSE "update"
    /\ twin' = TwinAnimate(twin, d)
    /\ UNCHANGED <<nbody, planetSystems, systems, p, listener, frame, advanced, written>>

\* the script's own call animate() (line 259)
AnimateScript ==
    /\ pc = "script"
    /\ \E d \in Elapsed : AnimateBody(d, pending)

\* the host runs a queued animation-frame callback
AnimateFrame ==
    /\ pc = "idle"
    /\ pending > 0
    /\ ticks < MaxTicks
    /\ \E d \in Elapsed : AnimateBody(d, pending - 1)

\* the planet body with the moons left to read the position the planet had
\* before this update
UpdatePlanetMoonsReadPrevious ==
    /\ pc = "update"
    /\ cur.mi = 0
    /\ LET si  == cur.si
           sys == UpdatePlanetOf(systems[si], planetSystems[si], si - 1, dt, globalTime)
           nxt == AfterBody(si, 0)
       IN /\ systems' = [systems EXCEPT ![si] = sys]
          /\ p' = systems[si].mesh
          /\ advanced' = [advanced EXCEPT ![<<si, 0>>] = ticks]
          /\ cur' = nxt
          /\ pc' = IF nxt.si > Len(systems) THEN "render" ELSE "update"
    /\ UNCHANGED <<nbody, twin, planetSystems, globalTime, lastTime, now, dt, pending, listener,
                   viewport, frame, ticks, updates, written>>

\* update: the planet of the system forEach is at
UpdatePlanet ==
    /\ pc = "update"
    /\ cur.mi = 0
    /\ LET si  == cur.si
           sys == UpdatePlanetOf(systems[si], planetSystems[si], si - 1, dt, globalTime)
           nxt == AfterBody(si, 0)
       IN /\ systems' = [systems EXCEPT ![si] = sys]
          /\ p' = sys.mesh
          /\ advanced' = [advanced EXCEPT ![<<si, 0>>] = ticks]
          /\ cur' = nxt
          /\ pc' = IF nxt.si > Len(systems) THEN "render" ELSE "update"
    /\ UNCHANGED <<nbody, twin, planetSystems, globalTime, lastTime, now, dt, pending, listener,
                   viewport, frame, ticks, updates, written>>

\* update: the moon sys.moons.forEach is at
UpdateMoon ==
    /\ pc = "update"
    /\ cur.mi > 0
    /\ LET si   == cur.si
           mi   == cur.mi
           moon == UpdateMoonOf(systems[si].moons[mi], planetSystems[si].moons[mi],
                                si - 1, mi - 1, p, dt)
           nxt  == AfterBody(si, mi)
       IN /\ systems' = [systems EXCEPT ![si].moons[mi] = moon]
          /\ advanced' = [advanced EXCEPT ![<<si, mi>>] = ticks]
          /\ written' = [written EXCEPT ![<<si, mi>>][moon.index] = ticks]
          /\ cur' = nxt
          /\ pc' = IF nxt.si > Len(systems) THEN "render" ELSE "update"
    /\ UNCHANGED <<nbody, twin, planetSystems, globalTime, lastTime, now, dt, p, pending, listener,
                   viewport, frame, ticks, updates>>

RenderInsideLoop ==
    /\ pc \in {"update", "render"}
    /\ frame' = [tick |-> ticks, systems |-> systems, advanced |-> advanced]
    /\ pc' = IF pc = "update" THEN pc ELSE IF listener THEN "idle" ELSE "listen"
    /\ UNCHANGED <<nbody, twin, planetSystems, systems, globalTime, lastTime, now, dt, cur, p,
                   pending, listener, viewport, ticks, updates, advanced, written>>

\* controls.update(); renderer.render(scene, camera): reads meshes and trails
Render ==
    /\ pc = "render"
    /\ frame' = [tick |-> ticks, systems |-> systems, advanced |-> advanced]
    /\ pc' = IF listener THEN "idle" ELSE "listen"
    /\ UNCHANGED <<nbody, twin, planetSystems, systems, globalTime, lastTime, now, dt, cur, p,
                   pending, listener, viewport, ticks, updates, advanced, written>>

\* window.addEventListener('resize', ...), the script's last statement
AddResizeListener ==
    /\ pc = "listen"
    /\ listener' = TRUE
    /\ pc' = "idle"
    /\ UNCHANGED <<nbody, twin, planetSystems, systems, globalTime, lastTime, now, dt, cur, p,
                   pending, viewport, frame, ticks, updates, advanced, written>>

ResizeResetsTrails ==
    /\ pc = "idle"
    /\ listener
    /\ \E s \in WindowSizes :
          viewport' = [viewport EXCEPT !.window = s, !.aspect = s, !.size = s]
    /\ systems' = [si \in 1..Len(systems) |->
                     [systems[si] EXCEPT !.moons =
                        [mi \in 1..Len(systems[si].moons) |->
                           [systems[si].moons[mi] EXCEPT !.index = 0]]]]
    /\ UNCHANGED <<nbody, twin, planetSystems, globalTime, lastTime, now, dt, pc, cur, p,
                   pending, listener, frame, ticks, updates, advanced, written>>

\* the window is resized and the resize listener runs
Resize ==
    /\ pc = "idle"
    /\ listener
    /\ \E s \in WindowSizes :
          viewport' = [viewport EXCEPT !.window = s, !.aspect = s, !.size = s]
    /\ UNCHANGED <<nbody, twin, planetSystems, systems, globalTime, lastTime, now, dt, pc, cur, p,
                   pending, listener, frame, ticks, updates, advanced, written>>

Next ==
    \/ AnimateScript
    \/ AnimateFrame
    \/ UpdatePlanet
    \/ UpdateMoon
    \/ Render
    \/ AddResizeListener
    \/ Resize

Spec == Init /\ [][Next]_vars

\* Fairness is stated on the control part of the steps whose data part is
\* the whole update: under [][Next]_vars each of the three actions below is
\* enabled in, and taken by, exactly the same steps as the action it names.

\* the script's own call animate() is made (AnimateScript)
ScriptCallsAnimate ==
    /\ pc = "script"
    /\ ticks' = ticks + 1

\* the host calls the pending animate callback (AnimateFrame)
FrameDelivered ==
    /\ pc = "idle"
    /\ pending > 0
    /\ ticks < MaxTicks
    /\ ticks' = ticks + 1

\* the forEach of update goes on to its next body (UpdatePlanet, UpdateMoon)
UpdateAdvances ==
    /\ pc = "update"
    /\ cur' = AfterBody(cur.si, cur.mi)

\* the host delivers every requested frame, and a handler that has started
\* runs to its end
Fairness ==
    /\ WF_ticks(ScriptCallsAnimate)
    /\ WF_ticks(FrameDelivered)
    /\ WF_cur(UpdateAdvances)
    /\ WF_vars(Render)
    /\ WF_vars(AddResizeListener)

SpecLive == Init /\ [][Next]_vars /\ Fairness

\* the second run's window is resized and its resize listener runs
TwinResize ==
    /\ pc = "idle"
    /\ \E s \in WindowSizes : twin' = [twin EXCEPT !.window = s]
    /\ UNCHANGED <<nbody, planetSystems, systems, globalTime, lastTime, now, dt, pc,
                   cur, p, pending, listener, viewport, frame, ticks, updates,
                   advanced, written>>

NextTwoRuns ==
    \/ Next
    \/ TwinResize

\* two runs of the script from the same bodies, fed the same elapsed times
SpecTwoRuns == Init /\ [][NextTwoRuns]_vars

\* ------------------------------------------------------------ vocabulary
MoonOf(b) == systems[b[1]].moons[b[2]]

BodyOf(b) == IF b[2] = 0 THEN systems[b[1]] ELSE MoonOf(b)

Slots == 0..(trailLength - 1)

\* the three floats of slot s of a trail buffer
SlotOf(positions, s) == <<positions[s * 3], positions[s * 3 + 1], positions[s * 3 + 2]>>

Stored(m) == <<Fround(m.x), Fround(m.y), Fround(m.z)>>

\* the tick handler has returned (or the script has, for its own call)
TickDone == pc \in {"listen", "idle"}

\* --------------------------------------------------------------------- C1
\* C1: every trail is a fixed-length circular buffer overwritten oldest-first:
\* the buffer always has trailLength * 3 floats; a step that updates a moon
\* writes exactly one slot (the moon's new position, every other slot kept),
\* and once trailLength writes have happened the slot it writes is one that
\* was written least recently.
C1_TrailOverwritesOldestFirst ==
    /\ [](\A b \in Moons(planetSystems) :
            DOMAIN MoonOf(b).positions = 0..(trailLength * 3 - 1))
    /\ [][\A b \in Moons(planetSystems) :
            LET old == MoonOf(b).positions
                new == MoonOf(b)'.positions
                hit == { s \in Slots : written'[b][s] # written[b][s] }
            IN IF advanced'[b] # advanced[b]
               THEN /\ Cardinality(hit) = 1
                    /\ \A s \in hit :
                         /\ SlotOf(new, s) = Stored(MoonOf(b)'.mesh)
                         /\ ticks - 1 >= trailLength =>
                              \A t \in Slots : written[b][s] <= written[b][t]
                    /\ \A s \in Slots \ hit : SlotOf(new, s) = SlotOf(old, s)
               ELSE new = old /\ hit = {}]_vars

\* a moon's buffer has wrapped: every slot written, and a slot overwritten
C1_Witness ==
    /\ pc = "idle"
    /\ ticks > trailLength
    /\ \E b \in Moons(planetSystems) :
         /\ \A s \in Slots : written[b][s] > 0
         /\ written[b][MoonOf(b).index] = ticks
         /\ SlotOf(MoonOf(b).positions, MoonOf(b).index) = Stored(MoonOf(b).mesh)

\* --------------------------------------------------------------------- C2
\* C2: renderer.render runs only after update has visited every body: when
\* the handler is at the render call every body has been advanced in this
\* tick, and every frame rendered so far read all bodies at the frame's tick.
C2_RenderReadsCompletedUpdate ==
    /\ pc = "render" => \A b \in Bodies(planetSystems) : advanced[b] = ticks
    /\ frame.tick > 0 =>
         \A b \in Bodies(planetSystems) : frame.advanced[b] = frame.tick

\* a frame was rendered in a later tick in which time had passed
C2_Witness ==
    /\ pc = "idle"
    /\ ticks >= 2
    /\ dt > 0
    /\ frame.tick = ticks
    /\ frame.systems = systems

\* --------------------------------------------------------------------- C3
\* C3: every tick performs at least one simulation step, whatever the elapsed
\* time (zero included): each invocation of animate invokes update, and when
\* the handler has passed update every body has been stepped in this tick.
C3_EveryTickSteps ==
    /\ [](pc \in {"render", "listen", "idle"} =>
            /\ updates >= ticks
            /\ \A b \in Bodies(planetSystems) : advanced[b] = ticks
            /\ \A b \in Moons(planetSystems) : written[b][MoonOf(b).index] = ticks)
    /\ [][ticks' # ticks => updates' >= updates + 1]_vars

\* a tick with elapsed time zero has completed its step
C3_Witness ==
    /\ pc = "idle"
    /\ ticks >= 2
    /\ dt = 0
    /\ updates = ticks
    /\ \A b \in Bodies(planetSystems) : advanced[b] = ticks

\* configurations whose second entry has the orbitalSpeed v (orbitalSpeed is
\* 1 / orbital period: v <= 0 is no valid period)
ConfigWithSpeed(v) == [ShippedSystems EXCEPT ![2].orbitalSpeed = v]

Configs == { ConfigWithSpeed(v) : v \in {-53, 0, 53} }

\* the script run on a configuration that may hold an invalid entry
InitConfigs == (\E config \in Configs : InitWith(config)) /\ nbody = NBodyOff

SpecConfigs == InitConfigs /\ [][Next]_vars

\* ------------------------------------------------------------ N-body steps
mainVars == <<twin, planetSystems, systems, globalTime, lastTime, now, dt, pc, cur, p,
              pending, listener, viewport, frame, ticks, updates, advanced, written>>

\* three bodies placed by the Initializer at distances 0, 2 and 4; the
\* accelerations are evaluated once
InitNBody ==
    /\ InitWith(<< >>)
    /\ \E m \in [1..3 -> 1..MaxMass], v \in [1..3 -> (-MaxSpeed)..MaxSpeed] :
         LET bodies == [k \in 1..3 |-> InitialBody(m[k], (k - 1) * 2, v[k])]
         IN nbody = [bodies |-> bodies, acc |-> Accelerations(bodies),
                     stage |-> "idle", remaining |-> 0, steps |-> 0, evals |-> 1,
                     p0 |-> Momentum(bodies)]

\* a tick: the Frame Stepper chooses the number of sub-steps
NBTick ==
    /\ nbody.stage = "idle"
    /\ \E e \in 0..MaxElapsed :
         /\ nbody.steps + SubStepCount(e) <= MaxSteps
         /\ nbody' = [nbody EXCEPT !.stage = "kick1", !.remaining = SubStepCount(e)]
    /\ UNCHANGED mainVars

NBHalfKick ==
    /\ nbody.stage \in {"kick1", "kick2"}
    /\ nbody' = [nbody EXCEPT !.bodies = HalfKick(nbody.bodies, nbody.acc, dtBase),
                              !.stage = NextStage(nbody.stage)]
    /\ UNCHANGED mainVars

NBDrift ==
    /\ nbody.stage = "drift"
    /\ nbody' = [nbody EXCEPT !.bodies = Drift(nbody.bodies, dtBase),
                              !.stage = NextStage(nbody.stage)]
    /\ UNCHANGED mainVars

NBEvaluate ==
    /\ nbody.stage = "force"
    /\ nbody' = [nbody EXCEPT !.acc = Accelerations(nbody.bodies),
                              !.evals = nbody.evals + 1,
                              !.stage = NextStage(nbody.stage)]
    /\ UNCHANGED mainVars

\* the step is over: the next sub-step, or back to the caller
NBEndStep ==
    /\ nbody.stage = "end"
    /\ nbody' = [nbody EXCEPT !.steps = nbody.steps + 1,
                              !.remaining = nbody.remaining - 1,
                              !.stage = IF nbody.remaining > 1 THEN "kick1" ELSE "idle"]
    /\ UNCHANGED mainVars

NextNBody ==
    \/ NBTick
    \/ NBHalfKick
    \/ NBDrift
    \/ NBEvaluate
    \/ NBEndStep

SpecNBody == InitNBody /\ [][NextNBody]_vars

\* --------------------------------------------------------------------- C6
\* C6: total momentum, the sum over all bodies of mass * velocity, is after
\* any number of steps (and after every half-kick within a step) what it was
\* at the start.
C6_MomentumConserved == Momentum(nbody.bodies) = nbody.p0

\* steps have been taken and forces have changed the velocities
C6_Witness ==
    /\ nbody.stage = "idle"
    /\ nbody.steps >= 2
    /\ \E k \in 1..Len(nbody.bodies) :
         nbody.bodies[k].vel[1] # 0
    /\ \E j, k \in 1..Len(nbody.bodies) : nbody.bodies[j].mass # nbody.bodies[k].mass
    /\ nbody.p0 # Zero2

\* --------------------------------------------------------------------- C7
\* C7: a step is half-kick, drift, force evaluation, half-kick: both
\* half-kicks use the accelerations of the positions they see (the first the
\* ones carried over from the previous step, the second the ones evaluated
\* after the drift), and one force evaluation happens per step.
C7_KickDriftKick ==
    /\ nbody.stage \in {"kick1", "kick2", "idle", "end"} =>
         nbody.acc = Accelerations(nbody.bodies)
    /\ nbody.stage \in {"kick1", "idle"} => nbody.evals = nbody.steps + 1
    /\ nbody.stage \in {"kick2", "end"} => nbody.evals = nbody.steps + 2
    /\ nbody.stage \in {"drift", "force"} => nbody.evals = nbody.steps + 1

\* a second step starts its first half-kick with carried-over accelerations
C7_Witness ==
    /\ nbody.stage = "kick1"
    /\ nbody.steps >= 1
    /\ nbody.evals = 2
    /\ \E k \in 1..Len(nbody.bodies) : nbody.acc[k] # Zero2

\* --------------------------------------------------------------------- C4
\* C4: two runs started from the same bodies and fed the same elapsed times
\* are in the same state after every tick: same cumulative time and, for
\* every body, same angle, position, trail index and trail contents, whatever
\* the runs' clocks read and however their windows are resized.
C4_Deterministic ==
    TickDone => twin.globalTime = globalTime /\ twin.systems = systems

\* after two ticks with time passing, runs whose clocks and windows differ
C4_Witness ==
    /\ pc = "idle"
    /\ ticks >= 2
    /\ globalTime >= 2 * FrameQuantum
    /\ twin.now # now
    /\ twin.window # viewport.window
    /\ twin.systems = systems
    /\ \E b \in Moons(planetSystems) : MoonOf(b).positions # NewTrail

\* --------------------------------------------------------------------- C5
Store == [globalTime |-> globalTime, systems |-> systems]

AnglesOf(st) ==
    [b \in Bodies(planetSystems) |->
       IF b[2] = 0 THEN st.systems[b[1]].angle ELSE st.systems[b[1]].moons[b[2]].angle]

MeshesOf(st) ==
    [b \in Bodies(planetSystems) |->
       IF b[2] = 0 THEN st.systems[b[1]].mesh ELSE st.systems[b[1]].moons[b[2]].mesh]

\* C5: from every body store reached between ticks, update(d1) followed by
\* update(d2) leaves the same cumulative time, the same angle and the same
\* position of every body as a single update(d1 + d2).
C5_SplitFrameSameAdvance ==
    TickDone =>
    \A d1 \in Elapsed, d2 \in Elapsed :
       LET two == UpdateStore(planetSystems, UpdateStore(planetSystems, Store, d1), d2)
           one == UpdateStore(planetSystems, Store, d1 + d2)
       IN /\ two.globalTime = one.globalTime
          /\ AnglesOf(two) = AnglesOf(one)
          /\ MeshesOf(two) = MeshesOf(one)

\* the program has run two ticks with time passing, and two further frames
\* would move every body
C5_Witness ==
    /\ pc = "idle"
    /\ ticks >= 2
    /\ globalTime >= 2 * FrameQuantum
    /\ LET two == UpdateStore(planetSystems,
                              UpdateStore(planetSystems, Store, FrameQuantum),
                              FrameQuantum)
       IN \A b \in Bodies(planetSystems) : AnglesOf(two)[b] # AnglesOf(Store)[b]

\* --------------------------------------------------------------------- C8
\* C8: at t = 0 every orbiting body is placed at the same orbital phase (its
\* initial state is fixed by its configuration entry alone).
C8_SamePhaseAtStart ==
    ticks = 0 =>
      \A b \in Bodies(planetSystems), c \in Bodies(planetSystems) :
         BodyOf(b).angle = BodyOf(c).angle

\* --------------------------------------------------------------------- C9
\* a configuration entry a body can be built from
ValidEntry(pd) ==
    /\ pd.orbitalSpeed > 0
    /\ pd.radius > 0
    /\ \A mi \in 1..Len(pd.moons) : pd.moons[mi].speed > 0 /\ pd.moons[mi].r > 0

\* C9: an invalid configuration entry is rejected at initialization: no body
\* built from it is ever stepped.
C9_InvalidEntryNeverStepped ==
    \A b \in Bodies(planetSystems) :
       advanced[b] > 0 => ValidEntry(planetSystems[b[1]])

\* -------------------------------------------------------------------- C10
\* C10: the body store (every body's angle, position, trail index and trail
\* contents, and globalTime) changes only in steps of the update invoked by
\* the tick handler; a resize, a render and the listener registration leave
\* it unchanged.
C10_SingleWriter ==
    [][/\ <<systems, globalTime>>' # <<systems, globalTime>> =>
            (updates' # updates \/ pc = "update")
       /\ (viewport'.window # viewport.window \/ frame' # frame \/ listener' # listener)
            => <<systems, globalTime>>' = <<systems, globalTime>>]_vars

\* a resize has happened between ticks that moved the bodies
C10_Witness ==
    /\ pc = "idle"
    /\ ticks >= 2
    /\ globalTime > 0
    /\ viewport.window # <<1, 1>>
    /\ \E b \in Moons(planetSystems) : MoonOf(b).index # 0

\* ------------------------------------------------------------------ C11
\* C11: every invocation of animate leaves exactly one further tick
\* requested: once the script has called animate() exactly one callback is
\* pending in every state (never zero, never two), and when the host keeps
\* delivering frames every tick below the exploration bound MaxTicks is
\* followed by a further tick.
C11_AlwaysOnePending ==
    /\ [](pc # "script" => pending = 1)
    /\ [][ticks' # ticks =>
            /\ ticks' = ticks + 1
            /\ pending' = (IF pc = "script" THEN pending ELSE pending - 1) + 1]_vars
    /\ \A n \in 0..(MaxTicks - 1) : (ticks = n) ~> (ticks = n + 1)

C11_Witness ==
    /\ pc = "idle"
    /\ ticks >= 3
    /\ pending = 1
    /\ frame.tick = ticks

\* ------------------------------------------------------------------ C12
\* C12: a moon is always placed relative to its planet's position of the same
\* tick: no moon is ever ahead of its planet (the planet of a system is
\* advanced before any of its moons, and while a moon is being placed the
\* position it reads is the one its planet got in this tick), the planet's
\* position is the one computed for the current globalTime, and a moon that
\* has been advanced as often as its planet sits at the planet's position
\* plus its own local offset.
PlacedOnPlanet(b) ==
    LET pp  == systems[b[1]].mesh
        loc == MoonLocal(planetSystems[b[1]].moons[b[2]], b[1] - 1, b[2] - 1, MoonOf(b).angle)
        m   == MoonOf(b).mesh
    IN m.x = pp.x + loc.x /\ m.y = pp.y + loc.y /\ m.z = pp.z + loc.z

C12_MoonFollowsPlanetOfSameTick ==
    /\ \A b \in Moons(planetSystems) :
          /\ advanced[b] <= advanced[<<b[1], 0>>]
          /\ (advanced[b] > 0 /\ advanced[b] = advanced[<<b[1], 0>>]) => PlacedOnPlanet(b)
    /\ \A si \in 1..Len(systems) :
          advanced[<<si, 0>>] = ticks /\ ticks > 0 =>
            systems[si].mesh = PlanetPosition(planetSystems[si], si - 1,
                                              systems[si].angle, globalTime)
    /\ (pc = "update" /\ cur.mi > 0) =>
          /\ advanced[<<cur.si, 0>>] = ticks
          /\ p = systems[cur.si].mesh

C12_Witness ==
    /\ pc = "update"
    /\ ticks >= 2
    /\ cur.mi > 1
    /\ systems[cur.si].mesh # frame.systems[cur.si].mesh
    /\ advanced[<<cur.si, cur.mi - 1>>] = ticks
    /\ advanced[<<cur.si, cur.mi>>] = ticks - 1
    /\ PlacedOnPlanet(<<cur.si, cur.mi - 1>>)

\* ------------------------------------------------------------------ C13
\* C13: the write index of a trail starts at 0 and is advanced before each
\* write, so the first recorded position goes to slot 1.  For a moon updated
\* k times: the index is k % trailLength and stays within 0..trailLength-1;
\* the slot at the index holds the moon's latest position; while
\* k < trailLength exactly slots 1..k have been written (slot s by update s)
\* and slot 0 and slots k+1..trailLength-1 still hold the initial zeros;
\* slot 0 is written for the first time by update number trailLength.
C13_FirstWriteGoesToSlotOne ==
    \A b \in Moons(planetSystems) :
      LET k    == advanced[b]
          moon == MoonOf(b)
      IN /\ moon.index \in Slots
         /\ moon.index = k % trailLength
         /\ k > 0 => SlotOf(moon.positions, moon.index) = Stored(moon.mesh)
         /\ k < trailLength =>
               \A s \in Slots :
                 IF 1 <= s /\ s <= k
                 THEN written[b][s] = s
                 ELSE written[b][s] = 0 /\ SlotOf(moon.positions, s) = <<0, 0, 0>>
         /\ k >= trailLength =>
               /\ written[b][0] >= trailLength
               /\ written[b][0] % trailLength = 0

C13_Witness ==
    /\ pc = "idle"
    /\ ticks = 1
    /\ \E b \in Moons(planetSystems) :
          /\ advanced[b] = 1
          /\ MoonOf(b).index = 1
          /\ written[b][1] = 1
          /\ SlotOf(MoonOf(b).positions, 1) = Stored(MoonOf(b).mesh)
          /\ SlotOf(MoonOf(b).positions, 1) # <<0, 0, 0>>
          /\ SlotOf(MoonOf(b).positions, 0) = <<0, 0, 0>>

====
